---- MODULE Spec2Model ----
(***************************************************************************)
(* cron-runner: the trigger-and-track engine.                              *)
(*                                                                         *)
(*   retry.CalculateBackoff / retry.IsRetryable / retry.Do                 *)
(*   pipeline.Client.TriggerAll / startJob / pollJobCompletion /           *)
(*                   fetchJobStatus                                        *)
(*   health.State and the HTTP frontend of serverMode                      *)
(*                                                                         *)
(* Durations are whole ticks, the way time.Duration is whole nanoseconds:  *)
(* every float64 -> time.Duration conversion of the source truncates to a  *)
(* whole tick.  One second is Second ticks.                                *)
(***************************************************************************)
EXTENDS Integers, Sequences, FiniteSets, TLC

\* time.Second, in ticks (a tick plays the part of the nanosecond).
Second == 32

\* ----------------------------------------------------------------- bounds
\* Largest cfg.MaxRetries the engine is run with.
MaxRetriesBound == 2
\* Largest attempt index CalculateBackoff is applied to on its own.
MaxAttemptIndex == 4
\* Number of /trigger handlers the server runs side by side.
NumTriggers == 2
\* Number of /ready requests the server answers.
NumReadyReqs == 1

\* ------------------------------------------------------------ small helpers
RECURSIVE Pow(_, _)
Pow(b, n) ==
    IF n = 0 THEN 1 ELSE b * Pow(b, n - 1)

Min(a, b) ==
    IF a <= b THEN a ELSE b

Max(a, b) ==
    IF a >= b THEN a ELSE b

\* A nil error.
NoErr == "nil"

\* A nil *http.Response / *JobStatus is the empty sequence, a non-nil one a
\* one-element sequence.
Nil == << >>

\* ------------------------------------------------------------ header parsing
DigitVal ==
    [c \in {"0", "1", "2", "3", "4", "5", "6", "7", "8", "9"} |->
        CASE c = "0" -> 0 [] c = "1" -> 1 [] c = "2" -> 2 [] c = "3" -> 3
          [] c = "4" -> 4 [] c = "5" -> 5 [] c = "6" -> 6 [] c = "7" -> 7
          [] c = "8" -> 8 [] c = "9" -> 9]

IsDigits(s) ==
    /\ Len(s) > 0
    /\ \A i \in 1..Len(s) : s[i] \in DOMAIN DigitVal

RECURSIVE DigitsValue(_)
DigitsValue(s) ==
    IF Len(s) = 0 THEN 0
    ELSE 10 * DigitsValue(SubSeq(s, 1, Len(s) - 1)) + DigitVal[s[Len(s)]]

\* strconv.Atoi on a header value, a sequence of characters: an optional
\* sign followed by one or more decimal digits, anything else is an error.
Atoi(s) ==
    IF Len(s) > 0 /\ s[1] \in {"+", "-"}
    THEN LET d == Tail(s) IN
         IF IsDigits(d)
         THEN [ok |-> TRUE,
               val |-> IF s[1] = "-" THEN 0 - DigitsValue(d) ELSE DigitsValue(d)]
         ELSE [ok |-> FALSE, val |-> 0]
    ELSE IF IsDigits(s)
         THEN [ok |-> TRUE, val |-> DigitsValue(s)]
         ELSE [ok |-> FALSE, val |-> 0]

\* HTTP-dates a Retry-After header may hold, each written as one token that
\* names where the date lies relative to the instant the header is read,
\* and time.Until of that date at that instant.
DateUntil ==
    [d \in {"date-2s", "date+0s", "date+1s"} |->
        CASE d = "date-2s" -> 0 - 2 * Second
          [] d = "date+0s" -> 0
          [] d = "date+1s" -> Second]

\* time.Parse(time.RFC1123, retryAfter) followed by time.Until(t).
ParseDate(s) ==
    IF Len(s) = 1 /\ s[1] \in DOMAIN DateUntil
    THEN [ok |-> TRUE, val |-> DateUntil[s[1]]]
    ELSE [ok |-> FALSE, val |-> 0]

\* ------------------------------------------------------------ retry package
IsRetryableFrom400(resp, err) ==
    IF err # NoErr THEN TRUE
    ELSE IF resp = Nil THEN TRUE
    ELSE resp[1].StatusCode >= 400

\* retry.IsRetryable(resp, err).
IsRetryable(resp, err) ==
    IF err # NoErr THEN TRUE
    ELSE IF resp = Nil THEN TRUE
    ELSE IF resp[1].StatusCode \in {429, 503, 504, 502} THEN TRUE
    ELSE resp[1].StatusCode >= 500

ExponentialBackoffNoCap(c, attempt) ==
    (c.InitialBackoff * Pow(c.FactorNum, attempt)) \div Pow(c.FactorDen, attempt)

\* The exponential branch of CalculateBackoff:
\*   backoff := float64(InitialBackoff) * math.Pow(BackoffFactor, attempt)
\*   if backoff > float64(MaxBackoff) { backoff = float64(MaxBackoff) }
\*   return time.Duration(backoff)
\* BackoffFactor is the rational FactorNum / FactorDen; the product is kept
\* exact and the conversion to time.Duration truncates it.
ExponentialBackoff(c, attempt) ==
    LET num == c.InitialBackoff * Pow(c.FactorNum, attempt)
        den == Pow(c.FactorDen, attempt)
    IN  IF num > c.MaxBackoff * den THEN c.MaxBackoff ELSE num \div den

CalculateBackoffHintCapped(c, attempt, resp) ==
    IF resp # Nil /\ resp[1].StatusCode = 429 /\ resp[1].RetryAfter # << >>
    THEN LET ra == resp[1].RetryAfter IN
         IF Atoi(ra).ok THEN Min(Atoi(ra).val * Second, c.MaxBackoff)
         ELSE IF ParseDate(ra).ok THEN ParseDate(ra).val
         ELSE ExponentialBackoff(c, attempt)
    ELSE ExponentialBackoff(c, attempt)

\* retry.CalculateBackoff(cfg, attempt, resp).
CalculateBackoff(c, attempt, resp) ==
    IF resp # Nil /\ resp[1].StatusCode = 429 /\ resp[1].RetryAfter # << >>
    THEN LET ra == resp[1].RetryAfter IN
         IF Atoi(ra).ok THEN Atoi(ra).val * Second
         ELSE IF ParseDate(ra).ok THEN ParseDate(ra).val
         ELSE ExponentialBackoff(c, attempt)
    ELSE ExponentialBackoff(c, attempt)

\* ------------------------------------------------------------------- state
VARIABLES
    cfg,      \* the Client's retryCfg and pollCfg, and whether baseURL parses
    backend,  \* what the backend may answer, and how long a request may take
    trig,     \* per TriggerAll invocation: its context, clock, locals, result
    bk,       \* one application of CalculateBackoff: its inputs and outputs
    health,   \* health.State: ready and lastPipelineRun
    main,     \* serverMode's own goroutine and the http.Server it runs
    hnd,      \* per /trigger request: its handler
    rdy       \* per /ready request: its handler

vars == << cfg, backend, trig, bk, health, main, hnd, rdy >>

Triggers == 1..NumTriggers

\* ---------------------------------------------------------- the environment
\* What the backend may answer to POST /v1/internal/pipelines/all.  Body is
\* what the body turns out to be when startJob reads and parses it.
Resp(code, ra, body) ==
    [StatusCode |-> code, RetryAfter |-> ra, Body |-> body]

RetryAfterValues ==
    { << >>, <<"1">>, <<"0">>, <<"-", "1">>, <<"date-2s">>, <<"date+1s">>,
      <<"soon">> }

StartResponses ==
    { Resp(200, << >>, b) : b \in {"job", "nojob", "malformed", "readerr"} }
    \cup { Resp(201, << >>, "job"), Resp(302, << >>, "text"),
           Resp(404, << >>, "text"), Resp(500, << >>, "text"),
           Resp(503, << >>, "text"), Resp(503, <<"1">>, "text") }
    \cup { Resp(429, ra, "text") : ra \in RetryAfterValues }

\* One client.Do: a transport error, or a response.  A request whose context
\* is already cancelled fails without an answer.
TransportErr == "transport error"

CtxErr == "context canceled"

SendOutcomes(t) ==
    IF t.ctxDone
    THEN { [resp |-> Nil, err |-> TransportErr] }
    ELSE { [resp |-> Nil, err |-> TransportErr] }
         \cup { [resp |-> << r >>, err |-> NoErr] : r \in backend.start }

\* How long one request may take: no time, or RequestTime (at most the
\* http.Client's Timeout).
RequestTime == 16

RequestDurations == {0, RequestTime}

\* The status code of an attempt's outcome, 0 for a transport error.
OutcomeCode(o) ==
    IF o.err # NoErr THEN 0 ELSE o.resp[1].StatusCode

\* A JobStatus snapshot, as far as the engine reads it.
JobStatus(status, failed) ==
    [Status |-> status, PipelinesFailed |-> failed]

JobStatuses ==
    { JobStatus(s, 0) : s \in {"pending", "running", "unknown", ""} }
    \cup { JobStatus(s, f) : s \in {"completed", "failed"}, f \in {0, 2} }

\* What GET /v1/internal/pipelines/jobs/{id} may come to: a transport error,
\* or a status code with a body that cannot be read, does not parse, or
\* parses to a JobStatus.
FetchResp(err, code, body, data) ==
    [err |-> err, StatusCode |-> code, Body |-> body, Data |-> data]

StatusResponses ==
    { FetchResp(NoErr, c, "text", JobStatus("", 0)) : c \in {404, 429, 500, 302} }
    \cup { FetchResp(NoErr, 200, b, JobStatus("", 0)) :
               b \in {"readerr", "malformed"} }
    \cup { FetchResp(NoErr, 200, "json", js) : js \in JobStatuses }

FetchOutcomes(t) ==
    IF t.ctxDone
    THEN { FetchResp(TransportErr, 0, "none", JobStatus("", 0)) }
    ELSE { FetchResp(TransportErr, 0, "none", JobStatus("", 0)) }
         \cup backend.status

\* Any backend.
AnyBackend ==
    [start |-> StartResponses, status |-> StatusResponses,
     durations |-> RequestDurations]

\* ------------------------------------------------------- one TriggerAll call
\* retry.Result (TotalTime is the clock at return: Do starts at clock 0).
NoResult ==
    [Response |-> Nil, Attempts |-> 0, TotalTime |-> 0, FinalError |-> NoErr]

\* pipeline.TriggerResult, zero value.
NoTriggerResult ==
    [Success |-> FALSE, JobID |-> "", StatusCode |-> 0, Attempts |-> 0,
     Duration |-> 0, Error |-> NoErr, JobDetails |-> Nil]

\* A TriggerAll invocation that has not been made.
\*   pc        where the invocation stands
\*   ctxDone   whether its context has been cancelled
\*   now       its clock: time since TriggerAll took startTime
\*   attempt, lastResp, lastErr, backoff   locals of retry.Do
\*   sent      client.Do calls made on the start endpoint
\*   hist      the status codes those calls got, 0 for a transport error
\*   res       what retry.Do returned
\*   jobID, attempts                       what startJob returned
\*   interval, deadline                    locals of pollJobCompletion
\*   pollStart clock when pollJobCompletion was entered
\*   waits     poll-interval waits that ran to their end
\*   fetches   requests sent to the job-status endpoint
\*   lastFetched  what the last status request came to (nil before the first)
\*   lastWait  the interval the last completed wait slept for
\*   result    what TriggerAll returned
IdleTrigger ==
    [pc |-> "idle", ctxDone |-> FALSE, now |-> 0,
     attempt |-> 0, lastResp |-> Nil, lastErr |-> NoErr, backoff |-> 0,
     sent |-> 0, hist |-> << >>, res |-> NoResult,
     jobID |-> "", attempts |-> 0,
     interval |-> 0, deadline |-> 0, pollStart |-> 0,
     waits |-> 0, fetches |-> 0, lastFetched |-> Nil, lastWait |-> 0,
     result |-> NoTriggerResult]

\* ------------------------------------------------------------------ retry.Do
\* A return statement of Do.
DoReturn(t, resp, attempts, finalErr) ==
    [t EXCEPT !.pc = "do_done",
              !.res = [Response |-> resp, Attempts |-> attempts,
                       TotalTime |-> t.now, FinalError |-> finalErr]]

DoLoopHeadOneMore(t) ==
    IF t.attempt > cfg.MaxRetries + 1
    THEN [t EXCEPT !.pc = "do_done",
                   !.res = [Response |-> t.lastResp,
                            Attempts |-> cfg.MaxRetries + 1,
                            TotalTime |-> t.now, FinalError |-> t.lastErr]]
    ELSE IF t.attempt > 0
    THEN [t EXCEPT !.pc = "do_backoff",
                   !.backoff = CalculateBackoff(cfg, t.attempt - 1, t.lastResp)]
    ELSE [t EXCEPT !.pc = "do_send"]

\* The head of Do's loop: `attempt <= cfg.MaxRetries`, then for attempt > 0
\* the backoff is computed (lines 86-92); past the loop, the final return
\* (lines 150-155).
DoLoopHead(t) ==
    IF t.attempt > cfg.MaxRetries
    THEN DoReturn(t, t.lastResp, cfg.MaxRetries + 1, t.lastErr)
    ELSE IF t.attempt > 0
    THEN [t EXCEPT !.pc = "do_backoff",
                   !.backoff = CalculateBackoff(cfg, t.attempt - 1, t.lastResp)]
    ELSE [t EXCEPT !.pc = "do_send"]

DoCancelledCountsNext(t) ==
    DoReturn(t, Nil, t.attempt + 1, CtxErr)

\* The select of lines 94-102, case <-ctx.Done().
DoCancelled(t) ==
    DoReturn(t, Nil, t.attempt, CtxErr)

DoBackoffElapsedUnclamped(t) ==
    [t EXCEPT !.pc = "do_send", !.now = t.now + t.backoff]

\* The select of lines 94-102, case <-time.After(backoff): a timer of zero
\* or negative duration fires at once.
DoBackoffElapsed(t) ==
    [t EXCEPT !.pc = "do_send", !.now = t.now + Max(t.backoff, 0)]

DoAttemptForgetsLast(t, o, d) ==
    LET t1 == [t EXCEPT !.sent = t.sent + 1, !.now = t.now + d,
                        !.hist = Append(t.hist, OutcomeCode(o)),
                        !.lastResp = o.resp, !.lastErr = o.err]
    IN  IF o.err # NoErr
        THEN IF IsRetryable(Nil, o.err) /\ t.attempt < cfg.MaxRetries
             THEN [t1 EXCEPT !.attempt = t.attempt + 1, !.pc = "do_loop"]
             ELSE DoReturn(t1, t.lastResp, cfg.MaxRetries + 1, t.lastErr)
        ELSE IF ~IsRetryable(o.resp, NoErr)
             THEN DoReturn(t1, o.resp, t.attempt + 1, NoErr)
             ELSE [t1 EXCEPT !.attempt = t.attempt + 1, !.pc = "do_loop",
                             !.lastResp = t.lastResp, !.lastErr = t.lastErr]

\* Lines 106-147: one client.Do, which took d, and what the loop body does
\* with it.  `break` leaves the loop for the final return of lines 150-155.
DoAttempt(t, o, d) ==
    LET t1 == [t EXCEPT !.sent = t.sent + 1, !.now = t.now + d,
                        !.hist = Append(t.hist, OutcomeCode(o)),
                        !.lastResp = o.resp, !.lastErr = o.err]
    IN  IF o.err # NoErr
        THEN IF IsRetryable(Nil, o.err) /\ t.attempt < cfg.MaxRetries
             THEN [t1 EXCEPT !.attempt = t.attempt + 1, !.pc = "do_loop"]
             ELSE DoReturn(t1, t1.lastResp, cfg.MaxRetries + 1, t1.lastErr)
        ELSE IF ~IsRetryable(o.resp, NoErr)
             THEN DoReturn(t1, o.resp, t.attempt + 1, NoErr)
             ELSE [t1 EXCEPT !.attempt = t.attempt + 1, !.pc = "do_loop"]

\* ------------------------------------------------------------------ startJob
StartJobResultNoIdCheck(r) ==
    LET fail(e) == [jobID |-> "", attempts |-> r.Attempts, err |-> e] IN
    IF r.FinalError # NoErr THEN fail("failed to start job")
    ELSE IF r.Response = Nil THEN fail("no response received")
    ELSE IF r.Response[1].Body = "readerr" THEN fail("failed to read response")
    ELSE IF r.Response[1].StatusCode < 200 \/ r.Response[1].StatusCode >= 300
         THEN fail("unexpected status")
    ELSE IF r.Response[1].Body = "malformed" THEN fail("failed to parse response")
    ELSE [jobID |-> IF r.Response[1].Body = "job" THEN "job-1" ELSE "",
          attempts |-> r.Attempts, err |-> NoErr]

\* Lines 194-221 of startJob: from Do's Result to (jobID, attempts, err).
StartJobResult(r) ==
    LET fail(e) == [jobID |-> "", attempts |-> r.Attempts, err |-> e] IN
    IF r.FinalError # NoErr THEN fail("failed to start job")
    ELSE IF r.Response = Nil THEN fail("no response received")
    ELSE IF r.Response[1].Body = "readerr" THEN fail("failed to read response")
    ELSE IF r.Response[1].StatusCode < 200 \/ r.Response[1].StatusCode >= 300
         THEN fail("unexpected status")
    ELSE IF r.Response[1].Body = "malformed" THEN fail("failed to parse response")
    ELSE IF r.Response[1].Body # "job" THEN fail("no job ID in response")
    ELSE [jobID |-> "job-1", attempts |-> r.Attempts, err |-> NoErr]

StartFailedErrorDropped(t, attempts, err) ==
    [IdleTrigger EXCEPT
        !.pc = "done", !.ctxDone = t.ctxDone, !.now = t.now, !.sent = t.sent,
        !.result = [NoTriggerResult EXCEPT !.Attempts = attempts,
                                           !.Duration = t.now]]

\* TriggerAll's return on a start failure (lines 119-125).
StartFailed(t, attempts, err) ==
    [IdleTrigger EXCEPT
        !.pc = "done", !.ctxDone = t.ctxDone, !.now = t.now, !.sent = t.sent,
        !.result = [NoTriggerResult EXCEPT !.Attempts = attempts,
                                           !.Duration = t.now,
                                           !.Error = err]]

\* TriggerAll after a start (line 133) and the first lines of
\* pollJobCompletion (228-229).
PollingEntered(t, sj) ==
    [IdleTrigger EXCEPT
        !.pc = "poll_check", !.ctxDone = t.ctxDone, !.now = t.now,
        !.sent = t.sent, !.jobID = sj.jobID, !.attempts = sj.attempts,
        !.interval = cfg.InitialInterval,
        !.deadline = t.now + cfg.MaxWaitTime,
        !.pollStart = t.now]

\* startJob's return and what TriggerAll does with it.
AfterStart(t) ==
    LET sj == StartJobResult(t.res) IN
    IF sj.err # NoErr THEN StartFailed(t, sj.attempts, sj.err)
    ELSE PollingEntered(t, sj)

\* Client.StartJob, which runFireAndForget calls: the start step alone.  It
\* returns startJob's outcome as a TriggerResult: on an error what TriggerAll
\* returns for it, otherwise Success with the job's id.
Started(t, sj) ==
    [IdleTrigger EXCEPT
        !.pc = "done", !.ctxDone = t.ctxDone, !.now = t.now, !.sent = t.sent,
        !.jobID = sj.jobID, !.attempts = sj.attempts,
        !.result = [NoTriggerResult EXCEPT !.Success = TRUE,
                                           !.JobID = sj.jobID,
                                           !.Attempts = sj.attempts,
                                           !.Duration = t.now]]

StartJob(t) ==
    LET sj == StartJobResult(t.res) IN
    IF sj.err # NoErr THEN StartFailed(t, sj.attempts, sj.err)
    ELSE Started(t, sj)

\* -------------------------------------------------- polling and the result
\* fetchJobStatus, lines 290-314: from what the request came to, to
\* (*JobStatus, error).
FetchJobStatus(o) ==
    IF o.err # NoErr THEN [status |-> Nil, err |-> "request failed"]
    ELSE IF o.Body = "readerr" THEN [status |-> Nil, err |-> "failed to read response"]
    ELSE IF o.StatusCode = 404 THEN [status |-> Nil, err |-> "job not found"]
    ELSE IF o.StatusCode < 200 \/ o.StatusCode >= 300
         THEN [status |-> Nil, err |-> "unexpected status"]
    ELSE IF o.Body = "malformed" THEN [status |-> Nil, err |-> "failed to parse response"]
    ELSE [status |-> << o.Data >>, err |-> NoErr]

TriggerReturnStatusOnly(t, jobStatus, err) ==
    LET base == [NoTriggerResult EXCEPT
                     !.JobID = t.jobID, !.Attempts = t.attempts,
                     !.Duration = t.now, !.JobDetails = jobStatus]
    IN  [t EXCEPT
            !.pc = "done",
            !.result =
                IF err # NoErr THEN [base EXCEPT !.Error = err]
                ELSE IF jobStatus # Nil
                THEN [base EXCEPT !.Success = (jobStatus[1].Status = "completed")]
                ELSE base]

TriggerReturnCountsFetches(t, jobStatus, err) ==
    LET base == [NoTriggerResult EXCEPT
                     !.JobID = t.jobID, !.Attempts = t.attempts + t.fetches,
                     !.Duration = t.now, !.JobDetails = jobStatus]
    IN  [t EXCEPT
            !.pc = "done",
            !.result =
                IF err # NoErr THEN [base EXCEPT !.Error = err]
                ELSE IF jobStatus # Nil
                THEN [base EXCEPT !.Success =
                          /\ jobStatus[1].Status = "completed"
                          /\ jobStatus[1].PipelinesFailed = 0]
                ELSE base]

TriggerReturnAttachesLast(t, jobStatus, err) ==
    LET last == IF jobStatus = Nil /\ t.lastFetched # Nil
                THEN IF FetchJobStatus(t.lastFetched[1]).err = NoErr
                     THEN << t.lastFetched[1].Data >>
                     ELSE Nil
                ELSE jobStatus
        base == [NoTriggerResult EXCEPT
                     !.JobID = t.jobID, !.Attempts = t.attempts,
                     !.Duration = t.now, !.JobDetails = last]
    IN  [t EXCEPT
            !.pc = "done",
            !.result =
                IF err # NoErr THEN [base EXCEPT !.Error = err]
                ELSE IF jobStatus # Nil
                THEN [base EXCEPT !.Success =
                          /\ jobStatus[1].Status = "completed"
                          /\ jobStatus[1].PipelinesFailed = 0]
                ELSE base]

\* TriggerAll, lines 135-173: the result built from what pollJobCompletion
\* returned.
TriggerReturn(t, jobStatus, err) ==
    LET base == [NoTriggerResult EXCEPT
                     !.JobID = t.jobID, !.Attempts = t.attempts,
                     !.Duration = t.now, !.JobDetails = jobStatus]
    IN  [t EXCEPT
            !.pc = "done",
            !.result =
                IF err # NoErr THEN [base EXCEPT !.Error = err]
                ELSE IF jobStatus # Nil
                THEN [base EXCEPT !.Success =
                          /\ jobStatus[1].Status = "completed"
                          /\ jobStatus[1].PipelinesFailed = 0]
                ELSE base]

PollCycleStartNoDeadline(t) ==
    IF t.ctxDone THEN TriggerReturn(t, Nil, CtxErr)
    ELSE [t EXCEPT !.pc = "poll_fetch"]

\* The checks that open a poll cycle (lines 233-242).
PollCycleStart(t) ==
    IF t.now > t.deadline THEN TriggerReturn(t, Nil, "polling timeout")
    ELSE IF t.ctxDone THEN TriggerReturn(t, Nil, CtxErr)
    ELSE [t EXCEPT !.pc = "poll_fetch"]

PollFetchedStopsOnError(t, o, d) ==
    LET r  == FetchJobStatus(o)
        t1 == [t EXCEPT !.now = t.now + d, !.fetches = t.fetches + 1,
                        !.lastFetched = << o >>]
    IN  IF r.err # NoErr THEN TriggerReturn(t1, Nil, r.err)
        ELSE IF r.status[1].Status \in {"completed", "failed"}
        THEN TriggerReturn(t1, r.status, NoErr)
        ELSE [t1 EXCEPT !.pc = "poll_wait"]

PollFetchedRetries(t, o, d) ==
    LET r  == FetchJobStatus(o)
        t1 == [t EXCEPT !.now = t.now + d, !.fetches = t.fetches + 1,
                        !.lastFetched = << o >>]
    IN  IF r.err = NoErr /\ r.status[1].Status \in {"completed", "failed"}
        THEN TriggerReturn(t1, r.status, NoErr)
        ELSE IF o.err = NoErr /\ IsRetryable(<< o >>, NoErr) /\ t.fetches < 1
        THEN t1
        ELSE [t1 EXCEPT !.pc = "poll_wait"]

\* Lines 245-264: one fetchJobStatus, which took d, and what the loop does
\* with it.
PollFetched(t, o, d) ==
    LET r  == FetchJobStatus(o)
        t1 == [t EXCEPT !.now = t.now + d, !.fetches = t.fetches + 1,
                        !.lastFetched = << o >>]
    IN  IF r.err = NoErr /\ r.status[1].Status \in {"completed", "failed"}
        THEN TriggerReturn(t1, r.status, NoErr)
        ELSE [t1 EXCEPT !.pc = "poll_wait"]

NextIntervalDoubled(interval) ==
    LET grown == interval * 2 IN
    IF grown > cfg.MaxInterval THEN cfg.MaxInterval ELSE grown

\* Lines 274-277: interval = time.Duration(float64(interval) * 1.5), capped.
NextInterval(interval) ==
    LET grown == (interval * 3) \div 2 IN
    IF grown > cfg.MaxInterval THEN cfg.MaxInterval ELSE grown

PollWaitedRenewsDeadline(t) ==
    [t EXCEPT !.pc = "poll_check",
              !.now = t.now + Max(t.interval, 0),
              !.waits = t.waits + 1,
              !.lastWait = t.interval,
              !.interval = NextInterval(t.interval),
              !.deadline = t.now + Max(t.interval, 0) + cfg.MaxWaitTime]

\* The select of lines 267-271, case <-time.After(interval), and the growth
\* of the interval after it.
PollWaited(t) ==
    [t EXCEPT !.pc = "poll_check",
              !.now = t.now + Max(t.interval, 0),
              !.waits = t.waits + 1,
              !.lastWait = t.interval,
              !.interval = NextInterval(t.interval)]

PollCancelledIgnored(t) ==
    PollWaited(t)

\* The select of lines 267-271, case <-ctx.Done().
PollCancelled(t) ==
    TriggerReturn(t, Nil, CtxErr)

\* -------------------------------------------------------------- health.State
\* health.NewState().  lastPipelineRun is a pointer: nil, or the address of a
\* PipelineRunStatus in heap; mu is the RWMutex, 0 when free and p while
\* the /trigger handler p holds the write lock.  Read locks and SetReady's
\* write lock are taken and released within one step.
NewState ==
    [ready |-> TRUE, lastPipelineRun |-> Nil, heap |-> << >>, mu |-> 0]

\* err.Error() of a non-nil error, the empty string for a nil one
\* (RecordPipelineRun lines 58-60, the /trigger handler lines 178-181).
ErrorText(err) ==
    IF err # NoErr THEN err ELSE ""

\* time.Duration.String(): hours and minutes, seconds, and the fraction of a
\* second, here << minutes, seconds, ticks >>.
DurationString(d) ==
    << d \div (60 * Second), (d \div Second) % 60, d % Second >>

\* The PipelineRunStatus of lines 51-60 (without its Timestamp).
PipelineRunStatus(success, duration, attempts, err) ==
    [Success |-> success, Duration |-> DurationString(duration),
     Attempts |-> attempts, Error |-> ErrorText(err)]

RecordPipelineRunInPlace(h, success, duration, attempts, err) ==
    LET status == PipelineRunStatus(success, duration, attempts, err) IN
    IF h.lastPipelineRun = Nil
    THEN [h EXCEPT !.heap = Append(h.heap, status),
                   !.lastPipelineRun = << Len(h.heap) + 1 >>]
    ELSE [h EXCEPT !.heap[h.lastPipelineRun[1]] = status]

RecordPipelineRunKeepsSuccess(h, success, duration, attempts, err) ==
    LET status == PipelineRunStatus(success, duration, attempts, err) IN
    IF h.lastPipelineRun # Nil /\ h.heap[h.lastPipelineRun[1]].Success
    THEN h
    ELSE [h EXCEPT !.heap = Append(h.heap, status),
                   !.lastPipelineRun = << Len(h.heap) + 1 >>]

\* (*State).RecordPipelineRun between Lock and Unlock: a new
\* PipelineRunStatus is allocated and lastPipelineRun is pointed at it.
RecordPipelineRun(h, success, duration, attempts, err) ==
    LET status == PipelineRunStatus(success, duration, attempts, err) IN
    [h EXCEPT !.heap = Append(h.heap, status),
              !.lastPipelineRun = << Len(h.heap) + 1 >>]

SetReadyIgnored(h, ready) ==
    h

\* (*State).SetReady, under the write lock.
SetReady(h, ready) ==
    [h EXCEPT !.ready = ready]

\* (*State).HandleReady: the status code written for the value of ready read
\* under the read lock.
ReadyCode(ready) ==
    IF ready THEN 200 ELSE 503

TriggerCodeByError(result) ==
    IF result.Error = NoErr THEN 200 ELSE 500

\* The /trigger handler's status code for a TriggerResult (lines 169-177).
TriggerCode(result) ==
    IF result.Success THEN 200 ELSE 500

\* The JSON body of an answer of the /trigger handler; a key that is not
\* written is nil.
Body(status, attempts, duration, statusCode, error) ==
    [status |-> status, attempts |-> attempts, duration |-> duration,
     status_code |-> statusCode, error |-> error]

\* Lines 170-188: the body written for a TriggerResult.
TriggerBody(result) ==
    IF result.Success
    THEN Body("success", << result.Attempts >>,
              << DurationString(result.Duration) >>, Nil, Nil)
    ELSE Body("failed", << result.Attempts >>,
              << DurationString(result.Duration) >>,
              << result.StatusCode >>, << ErrorText(result.Error) >>)

\* Line 159: the body of the 405.
MethodNotAllowedBody ==
    Body("method not allowed", Nil, Nil, Nil, Nil)

\* (*State).HandleHealth, lines 78-92: the Status it encodes for the pointer
\* read under the lock; Checks is left out for a nil pointer.
HealthBody(h, lastRun) ==
    IF lastRun # Nil
    THEN [Status |-> "healthy", Checks |-> << h.heap[lastRun[1]] >>]
    ELSE [Status |-> "healthy", Checks |-> Nil]

\* ------------------------------------------------------------ configurations
RetryCfg(retries, initial, maxb, num, den) ==
    [MaxRetries |-> retries, InitialBackoff |-> initial, MaxBackoff |-> maxb,
     FactorNum |-> num, FactorDen |-> den]

PollCfg(initial, maxi, maxwait) ==
    [InitialInterval |-> initial, MaxInterval |-> maxi, MaxWaitTime |-> maxwait]

\* config.Load's defaults for the backoff (2s, 30s, factor 2.0), and a
\* backoff of a few ticks with factor 1.5.
EngineBackoffs ==
    { RetryCfg(0, 2 * Second, 30 * Second, 2, 1), RetryCfg(0, 1, 2, 3, 2) }

\* Poll settings: 1s growing to 10s within 32s, and two of a few ticks.
EnginePolls ==
    { PollCfg(Second, 10 * Second, 32 * Second), PollCfg(1, 3, 6),
      PollCfg(2, 5, 12) }

ClientCfg(r, retries, pl, urlOK) ==
    [MaxRetries |-> retries, InitialBackoff |-> r.InitialBackoff,
     MaxBackoff |-> r.MaxBackoff, FactorNum |-> r.FactorNum,
     FactorDen |-> r.FactorDen, InitialInterval |-> pl.InitialInterval,
     MaxInterval |-> pl.MaxInterval, MaxWaitTime |-> pl.MaxWaitTime,
     urlOK |-> urlOK]

\* MAX_RETRIES is any integer config.Load reads; -1 stands for the negative
\* ones.
EngineConfigs ==
    { ClientCfg(r, n, pl, TRUE) :
          r \in EngineBackoffs, n \in (-1)..MaxRetriesBound, pl \in EnginePolls }
    \cup { ClientCfg(r, 0, pl, FALSE) : r \in EngineBackoffs, pl \in EnginePolls }

\* ------------------------------------------------------------------- actions
\* A step of TriggerAll invocation p; no goroutine runs once the process has
\* exited.
Step(p, t) ==
    /\ main.pc # "exited"
    /\ trig' = [trig EXCEPT ![p] = t]
    /\ UNCHANGED << cfg, backend, bk, health, main, hnd, rdy >>

\* TriggerAll is entered: startTime is taken and startJob builds its request
\* (lines 115, 178-190); http.NewRequestWithContext fails on a base URL that
\* does not parse.
TriggerStart(p) ==
    /\ trig[p].pc = "start"
    /\ Step(p, IF cfg.urlOK
               THEN [trig[p] EXCEPT !.pc = "do_loop"]
               ELSE StartFailed(trig[p], 0, "failed to create request"))

DoLoop(p) ==
    /\ trig[p].pc = "do_loop"
    /\ Step(p, DoLoopHead(trig[p]))

DoBackoffCancel(p) ==
    /\ trig[p].pc = "do_backoff"
    /\ trig[p].ctxDone
    /\ Step(p, DoCancelled(trig[p]))

\* With the context already cancelled its channel is ready before a timer
\* of positive duration: the select then takes ctx.Done().  With both ready
\* it takes either.
DoBackoffTimer(p) ==
    /\ trig[p].pc = "do_backoff"
    /\ ~trig[p].ctxDone \/ trig[p].backoff <= 0
    /\ Step(p, DoBackoffElapsed(trig[p]))

DoSend(p) ==
    /\ trig[p].pc = "do_send"
    /\ \E o \in SendOutcomes(trig[p]), d \in backend.durations :
           Step(p, DoAttempt(trig[p], o, d))

\* startJob returns into TriggerAll.
StartJobReturns(p) ==
    /\ trig[p].pc = "do_done"
    /\ ~main.fireAndForget
    /\ Step(p, AfterStart(trig[p]))

\* startJob returns into StartJob.
StartJobOnly(p) ==
    /\ trig[p].pc = "do_done"
    /\ main.fireAndForget
    /\ Step(p, StartJob(trig[p]))

PollCheck(p) ==
    /\ trig[p].pc = "poll_check"
    /\ Step(p, PollCycleStart(trig[p]))

PollFetch(p) ==
    /\ trig[p].pc = "poll_fetch"
    /\ \E o \in FetchOutcomes(trig[p]), d \in backend.durations :
           Step(p, PollFetched(trig[p], o, d))

PollWaitCancel(p) ==
    /\ trig[p].pc = "poll_wait"
    /\ trig[p].ctxDone
    /\ Step(p, PollCancelled(trig[p]))

PollWaitTimer(p) ==
    /\ trig[p].pc = "poll_wait"
    /\ ~trig[p].ctxDone \/ trig[p].interval <= 0
    /\ Step(p, PollWaited(trig[p]))

\* The context handed to TriggerAll is cancelled by its owner.
Cancel(p) ==
    /\ trig[p].pc \notin {"idle", "done"}
    /\ ~trig[p].ctxDone
    /\ Step(p, [trig[p] EXCEPT !.ctxDone = TRUE])

\* ---------------------------------------------------------------- serverMode
\* serverMode before it has run: main.pc is where its goroutine stands,
\*   "serving"   blocked on <-sigChan (line 211)
\*   "signalled" the signal is received (lines 211-216)
\*   "notready"  healthState.SetReady(false) is done (line 218)
\*   "shutdown"  inside server.Shutdown (line 220)
\*   "exited"    serverMode has returned and the process is gone
\* and main.listening whether ListenAndServe is serving.
\* main.polling is the set of /trigger invocations that were polling when
\* the signal arrived, where the signal step notes it.
\* In the command-line program main.pc is "cli" until os.Exit, and
\* main.fireAndForget is the -fire-and-forget flag, main.exit the code the
\* process exited with (none before it has).
NoServer ==
    [pc |-> "none", listening |-> FALSE, polling |-> {},
     fireAndForget |-> FALSE, exit |-> Nil]

\* A /trigger request: where its handler stands ("running" inside
\* TriggerAll, "locking" with the health lock taken, "recorded" after
\* RecordPipelineRun, "answered"), and its answer.
NoHandler ==
    [pc |-> "none", method |-> "", code |-> 0, body |-> Nil]

\* A request to /ready or /health: the values its handler read under the
\* read lock (ready, or the lastRun pointer with the value it pointed to
\* then), and its answer.
NoReadyReq ==
    [pc |-> "none", path |-> "", ready |-> FALSE, code |-> 0, late |-> FALSE,
     lastRun |-> Nil, seen |-> Nil, body |-> Nil]

ReadyReqs == 1..NumReadyReqs

\* The server takes new requests until server.Shutdown closes its listeners.
Accepting ==
    /\ main.listening
    /\ main.pc \in {"serving", "signalled", "notready"}

\* A /trigger request whose handler has not returned.
InFlight(p) ==
    hnd[p].pc \in {"running", "locking", "recorded"}

\* ListenAndServe fails (the port is taken): the goroutine of lines 202-208
\* logs and calls cancel(), whose context nobody holds.
ListenFails ==
    /\ main.pc = "serving"
    /\ main.listening
    /\ \A p \in Triggers : hnd[p].pc = "none"
    /\ \A r \in ReadyReqs : rdy[r].pc = "none"
    /\ main' = [main EXCEPT !.listening = FALSE]
    /\ UNCHANGED << cfg, backend, trig, bk, health, hnd, rdy >>

\* sig := <-sigChan (lines 211-216).
Signal ==
    /\ main.pc = "serving"
    /\ main' = [main EXCEPT !.pc = "signalled"]
    /\ UNCHANGED << cfg, backend, trig, bk, health, hnd, rdy >>

\* The same step, with the invocations that are polling at that moment
\* noted in main.polling.
SignalWhilePolling ==
    /\ main.pc = "serving"
    /\ main' = [main EXCEPT
                    !.pc = "signalled",
                    !.polling = { p \in Triggers :
                                    /\ hnd[p].pc = "running"
                                    /\ trig[p].pc \in {"poll_check", "poll_fetch",
                                                       "poll_wait"} }]
    /\ UNCHANGED << cfg, backend, trig, bk, health, hnd, rdy >>

\* healthState.SetReady(false) (line 218).
MarkNotReady ==
    /\ main.pc = "signalled"
    /\ health.mu = 0
    /\ health' = SetReady(health, FALSE)
    /\ main' = [main EXCEPT !.pc = "notready"]
    /\ UNCHANGED << cfg, backend, trig, bk, hnd, rdy >>

BeginShutdownBeforeNotReady ==
    /\ main.pc \in {"signalled", "notready"}
    /\ main' = [main EXCEPT !.pc = "shutdown"]
    /\ UNCHANGED << cfg, backend, trig, bk, health, hnd, rdy >>

\* server.Shutdown(shutdownCtx) is entered: the listeners are closed.
BeginShutdown ==
    /\ main.pc = "notready"
    /\ main' = [main EXCEPT !.pc = "shutdown"]
    /\ UNCHANGED << cfg, backend, trig, bk, health, hnd, rdy >>

\* server.Shutdown returns nil once no request is in flight; serverMode
\* returns.
ShutdownDrained ==
    /\ main.pc = "shutdown"
    /\ \A p \in Triggers : ~InFlight(p)
    /\ \A r \in ReadyReqs : rdy[r].pc # "read"
    /\ main' = [main EXCEPT !.pc = "exited"]
    /\ UNCHANGED << cfg, backend, trig, bk, health, hnd, rdy >>

\* server.Shutdown returns the error of shutdownCtx after its 10 seconds
\* with requests still in flight; serverMode logs it and returns.
ShutdownTimedOut ==
    /\ main.pc = "shutdown"
    /\ \/ \E p \in Triggers : InFlight(p)
       \/ \E r \in ReadyReqs : rdy[r].pc = "read"
    /\ main' = [main EXCEPT !.pc = "exited"]
    /\ UNCHANGED << cfg, backend, trig, bk, health, hnd, rdy >>

\* A request to /trigger arrives: 405 for a method other than POST,
\* otherwise client.TriggerAll(r.Context()) is called (lines 158-165).
TriggerRequest(p) ==
    /\ Accepting
    /\ hnd[p].pc = "none"
    /\ \E m \in {"POST", "GET"} :
           IF m = "POST"
           THEN /\ hnd' = [hnd EXCEPT ![p] = [NoHandler EXCEPT !.pc = "running",
                                                               !.method = m]]
                /\ trig' = [trig EXCEPT ![p] = [IdleTrigger EXCEPT !.pc = "start"]]
           ELSE /\ hnd' = [hnd EXCEPT ![p] = [pc |-> "answered", method |-> m,
                                              code |-> 405,
                                              body |-> << MethodNotAllowedBody >>]]
                /\ UNCHANGED trig
    /\ UNCHANGED << cfg, backend, bk, health, main, rdy >>

\* TriggerAll has returned (line 165) and healthState.RecordPipelineRun
\* takes the write lock (part_001 line 48).
TriggerLock(p) ==
    /\ main.pc # "exited"
    /\ hnd[p].pc = "running"
    /\ trig[p].pc = "done"
    /\ health.mu = 0
    /\ health' = [health EXCEPT !.mu = p]
    /\ hnd' = [hnd EXCEPT ![p].pc = "locking"]
    /\ UNCHANGED << cfg, backend, trig, bk, main, rdy >>

\* healthState.RecordPipelineRun(...) with what TriggerAll returned
\* (line 166): the store, then the deferred Unlock.
TriggerRecord(p) ==
    /\ main.pc # "exited"
    /\ hnd[p].pc = "locking"
    /\ health' = [RecordPipelineRun(health, trig[p].result.Success,
                                    trig[p].result.Duration,
                                    trig[p].result.Attempts,
                                    trig[p].result.Error)
                      EXCEPT !.mu = 0]
    /\ hnd' = [hnd EXCEPT ![p].pc = "recorded"]
    /\ UNCHANGED << cfg, backend, trig, bk, main, rdy >>

\* The response of the /trigger handler (lines 168-189).
TriggerRespond(p) ==
    /\ main.pc # "exited"
    /\ hnd[p].pc = "recorded"
    /\ hnd' = [hnd EXCEPT ![p].pc = "answered",
                          ![p].code = TriggerCode(trig[p].result),
                          ![p].body = << TriggerBody(trig[p].result) >>]
    /\ UNCHANGED << cfg, backend, trig, bk, health, main, rdy >>

\* HandleReady reads ready under the read lock (lines 97-99).  late tells
\* whether the request came after serverMode had marked the state not ready.
ReadyRead(r) ==
    /\ Accepting
    /\ rdy[r].pc = "none"
    /\ health.mu = 0
    /\ rdy' = [rdy EXCEPT ![r] = [NoReadyReq EXCEPT
                                     !.pc = "read", !.path = "/ready",
                                     !.ready = health.ready,
                                     !.late = (main.pc = "notready")]]
    /\ UNCHANGED << cfg, backend, trig, bk, health, main, hnd >>

\* HandleHealth reads the lastPipelineRun pointer under the read lock
\* (lines 74-76).
HealthRead(r) ==
    /\ Accepting
    /\ rdy[r].pc = "none"
    /\ health.mu = 0
    /\ rdy' = [rdy EXCEPT ![r] = [NoReadyReq EXCEPT
                     !.pc = "read", !.path = "/health",
                     !.lastRun = health.lastPipelineRun,
                     !.seen = IF health.lastPipelineRun = Nil THEN Nil
                              ELSE << health.heap[health.lastPipelineRun[1]] >>]]
    /\ UNCHANGED << cfg, backend, trig, bk, health, main, hnd >>

\* HandleHealth encodes its answer (lines 78-92), the lock released: what
\* the pointer it read points to now.
HealthWrite(r) ==
    /\ main.pc # "exited"
    /\ rdy[r].pc = "read"
    /\ rdy[r].path = "/health"
    /\ rdy' = [rdy EXCEPT ![r].pc = "answered",
                          ![r].code = 200,
                          ![r].body = << HealthBody(health, rdy[r].lastRun) >>]
    /\ UNCHANGED << cfg, backend, trig, bk, health, main, hnd >>

\* HandleReady writes its answer (lines 101-116).
ReadyWrite(r) ==
    /\ main.pc # "exited"
    /\ rdy[r].pc = "read"
    /\ rdy[r].path = "/ready"
    /\ rdy' = [rdy EXCEPT ![r].pc = "answered",
                          ![r].code = ReadyCode(rdy[r].ready)]
    /\ UNCHANGED << cfg, backend, trig, bk, health, main, hnd >>

\* ---------------------------------------------- CalculateBackoff on its own
NoBackoffCall ==
    [cfg |-> RetryCfg(0, 1, 1, 1, 1), resp |-> Nil, attempt |-> 0,
     called |-> FALSE, prev |-> 0, cur |-> 0]

BackoffCfgs ==
    { RetryCfg(0, i, m, f[1], f[2]) :
          i \in {1, 3, Second, 2 * Second},
          m \in {1, 3, 4, Second, 3 * Second, 30 * Second},
          f \in { <<1, 1>>, <<3, 2>>, <<2, 1>>, <<5, 2>> } }

BackoffResps ==
    { Nil }
    \cup { << r >> : r \in StartResponses }
    \cup { << Resp(429, ra, "text") >> :
               ra \in { <<"5">>, <<"+", "5">>, <<"1", "2">>, <<"5", "s">>,
                        <<"date+0s">> } }
    \cup { << Resp(200, <<"5">>, "job") >> }

\* CalculateBackoff(cfg, 0, resp).
BackoffFirst ==
    /\ ~bk.called
    /\ bk' = [bk EXCEPT !.called = TRUE,
                        !.cur = CalculateBackoff(bk.cfg, 0, bk.resp),
                        !.prev = CalculateBackoff(bk.cfg, 0, bk.resp)]
    /\ UNCHANGED << cfg, backend, trig, health, main, hnd, rdy >>

\* CalculateBackoff(cfg, attempt + 1, resp), after that of attempt.
BackoffNext ==
    /\ bk.called
    /\ bk.attempt < MaxAttemptIndex
    /\ bk' = [bk EXCEPT !.attempt = bk.attempt + 1,
                        !.prev = bk.cur,
                        !.cur = CalculateBackoff(bk.cfg, bk.attempt + 1, bk.resp)]
    /\ UNCHANGED << cfg, backend, trig, health, main, hnd, rdy >>

\* ------------------------------------------------------------ specifications
\* One TriggerAll call, under any configuration, against any backend, with a
\* context its owner may cancel at any moment.
Init ==
    /\ cfg \in EngineConfigs
    /\ trig = [p \in Triggers |->
                  IF p = 1 THEN [IdleTrigger EXCEPT !.pc = "start"]
                  ELSE IdleTrigger]
    /\ bk = NoBackoffCall
    /\ backend = AnyBackend
    /\ health = NewState
    /\ main = NoServer
    /\ hnd = [p \in Triggers |-> NoHandler]
    /\ rdy = [r \in ReadyReqs |-> NoReadyReq]

Next ==
    \E p \in Triggers :
        \/ TriggerStart(p)
        \/ DoLoop(p)
        \/ DoBackoffCancel(p)
        \/ DoBackoffTimer(p)
        \/ DoSend(p)
        \/ StartJobReturns(p)
        \/ PollCheck(p)
        \/ PollFetch(p)
        \/ PollWaitCancel(p)
        \/ PollWaitTimer(p)
        \/ Cancel(p)

Spec == Init /\ [][Next]_vars

\* ------------------------------------------------- the command-line program
ExitCodeZero(result) ==
    0

\* The code runFireAndForget and runWithPolling hand to os.Exit.
ExitCode(result) ==
    IF result.Success THEN 0 ELSE 1

Exit(code) ==
    /\ main' = [main EXCEPT !.pc = "exited", !.exit = << code >>]
    /\ UNCHANGED << cfg, backend, trig, bk, health, hnd, rdy >>

\* runFireAndForget once client.StartJob has returned (lines 283-297).
RunFireAndForget ==
    /\ main.pc = "cli"
    /\ main.fireAndForget
    /\ trig[1].pc = "done"
    /\ Exit(ExitCode(trig[1].result))

\* runWithPolling once client.TriggerAll has returned (lines 306-326).
RunWithPolling ==
    /\ main.pc = "cli"
    /\ ~main.fireAndForget
    /\ trig[1].pc = "done"
    /\ Exit(ExitCode(trig[1].result))

\* main with the configuration loaded and the flag parsed, about to call
\* runFireAndForget or runWithPolling with context.Background().
CliInit ==
    /\ cfg \in EngineConfigs
    /\ trig = [p \in Triggers |->
                  IF p = 1 THEN [IdleTrigger EXCEPT !.pc = "start"]
                  ELSE IdleTrigger]
    /\ bk = NoBackoffCall
    /\ backend = AnyBackend
    /\ health = NewState
    /\ \E flag \in BOOLEAN :
           main = [NoServer EXCEPT !.pc = "cli", !.fireAndForget = flag]
    /\ hnd = [p \in Triggers |-> NoHandler]
    /\ rdy = [r \in ReadyReqs |-> NoReadyReq]

\* The background context is never cancelled.
CliNext ==
    \/ TriggerStart(1)
    \/ DoLoop(1)
    \/ DoBackoffTimer(1)
    \/ DoSend(1)
    \/ StartJobReturns(1)
    \/ StartJobOnly(1)
    \/ PollCheck(1)
    \/ PollFetch(1)
    \/ PollWaitTimer(1)
    \/ RunFireAndForget
    \/ RunWithPolling

CliSpec == CliInit /\ [][CliNext]_vars

\* CalculateBackoff applied to every configuration, response and attempt
\* index of the sets above.
BackoffInit ==
    /\ cfg = ClientCfg(RetryCfg(0, 1, 1, 1, 1), 0, PollCfg(1, 1, 1), TRUE)
    /\ backend = AnyBackend
    /\ health = NewState
    /\ main = NoServer
    /\ hnd = [p \in Triggers |-> NoHandler]
    /\ rdy = [r \in ReadyReqs |-> NoReadyReq]
    /\ trig = [p \in Triggers |-> IdleTrigger]
    /\ bk \in { [NoBackoffCall EXCEPT !.cfg = c, !.resp = r] :
                    c \in { b \in BackoffCfgs : b.MaxBackoff >= b.InitialBackoff },
                    r \in BackoffResps }

BackoffNextStep ==
    BackoffFirst \/ BackoffNext

BackoffSpec == BackoffInit /\ [][BackoffNextStep]_vars

\* One TriggerAll call whose goroutine keeps running: a timer fires, a
\* request returns within the http.Client's Timeout, the next statement is
\* executed.  Nothing obliges the context's owner to cancel.
EngineStep(p) ==
    \/ TriggerStart(p)
    \/ DoLoop(p)
    \/ DoBackoffCancel(p)
    \/ DoBackoffTimer(p)
    \/ DoSend(p)
    \/ StartJobReturns(p)
    \/ PollCheck(p)
    \/ PollFetch(p)
    \/ PollWaitCancel(p)
    \/ PollWaitTimer(p)

\* The configurations under which termination is examined: at most one
\* retry, poll intervals of a few ticks.
LiveConfigs ==
    { c \in EngineConfigs : c.MaxRetries \in {0, 1} /\ c.InitialInterval < Second }

LiveInit ==
    /\ cfg \in LiveConfigs
    /\ trig = [p \in Triggers |->
                  IF p = 1 THEN [IdleTrigger EXCEPT !.pc = "start"]
                  ELSE IdleTrigger]
    /\ bk = NoBackoffCall
    /\ backend = AnyBackend
    /\ health = NewState
    /\ main = NoServer
    /\ hnd = [p \in Triggers |-> NoHandler]
    /\ rdy = [r \in ReadyReqs |-> NoReadyReq]

LiveSpec ==
    LiveInit /\ [][Next]_vars /\ \A p \in Triggers : WF_vars(EngineStep(p))

\* serverMode: the HTTP server with its /trigger and /ready handlers, and the
\* shutdown on a signal.  The context of a /trigger request is cancelled
\* when its client goes away.  Nothing runs once the process has exited.
ServerCfg ==
    ClientCfg(RetryCfg(0, 1, 1, 1, 1), 1, PollCfg(2, 2, 1), TRUE)

ServerBackend ==
    [start |-> { Resp(200, << >>, "job"), Resp(200, << >>, "malformed"),
                 Resp(404, << >>, "text"), Resp(503, << >>, "text") },
     status |-> { FetchResp(NoErr, 200, "json", JobStatus("running", 0)),
                  FetchResp(NoErr, 200, "json", JobStatus("completed", 0)),
                  FetchResp(NoErr, 200, "json", JobStatus("completed", 2)),
                  FetchResp(NoErr, 200, "json", JobStatus("failed", 2)) },
     durations |-> {0}]

ServerInit ==
    /\ cfg = ServerCfg
    /\ backend = ServerBackend
    /\ trig = [p \in Triggers |-> IdleTrigger]
    /\ bk = NoBackoffCall
    /\ health = NewState
    /\ main = [NoServer EXCEPT !.pc = "serving", !.listening = TRUE]
    /\ hnd = [p \in Triggers |-> NoHandler]
    /\ rdy = [r \in ReadyReqs |-> NoReadyReq]

ServerSteps ==
    \/ ListenFails
    \/ MarkNotReady
    \/ BeginShutdown
    \/ ShutdownDrained
    \/ ShutdownTimedOut
    \/ \E r \in ReadyReqs :
           \/ ReadyRead(r)
           \/ ReadyWrite(r)
           \/ HealthRead(r)
           \/ HealthWrite(r)
    \/ \E p \in Triggers :
           \/ TriggerRequest(p)
           \/ TriggerLock(p)
           \/ TriggerRecord(p)
           \/ TriggerRespond(p)
    \/ Next

ServerNext ==
    Signal \/ ServerSteps

ServerSpec == ServerInit /\ [][ServerNext]_vars

\* serverMode again, the signal step noting which invocations it finds
\* polling.
ShutdownNext ==
    SignalWhilePolling \/ ServerSteps

ShutdownSpec == ServerInit /\ [][ShutdownNext]_vars

\* ===================================================================== claims
Range(seq) ==
    { seq[i] : i \in 1..Len(seq) }

Is2xx(code) ==
    code \in 200..299

\* A status the executor does not retry: not 429 and not 5xx.
NonRetryableStatus(code) ==
    code # 429 /\ code \notin 500..599

\* C1: for maxRetries >= 0 and whatever the attempts come to, one run of
\* retry.Do makes at most maxRetries + 1 HTTP attempts.
C1_AtMostMaxRetriesPlusOne ==
    \A p \in Triggers :
        cfg.MaxRetries >= 0 => trig[p].sent <= cfg.MaxRetries + 1

\* Do has returned after using its whole budget on transport errors and
\* retryable statuses.
C1_Witness ==
    \E p \in Triggers :
        /\ trig[p].pc = "do_done"
        /\ cfg.MaxRetries = MaxRetriesBound
        /\ trig[p].sent = cfg.MaxRetries + 1
        /\ {0, 429, 503} \subseteq Range(trig[p].hist)

\* C2: the attempt that gets a response with a non-retryable status is the
\* last one: Do returns that response with a nil FinalError and Attempts =
\* the attempt's index + 1 (the number of attempts made), and once Do has
\* returned no further attempt is made.
C2_StopsAtNonRetryable ==
    [][\A p \in Triggers :
        /\ ( /\ trig[p].pc = "do_send"
             /\ trig'[p].sent = trig[p].sent + 1
             /\ trig'[p].lastErr = NoErr
             /\ trig'[p].lastResp # Nil
             /\ NonRetryableStatus(trig'[p].lastResp[1].StatusCode) )
           => /\ trig'[p].pc = "do_done"
              /\ trig'[p].res.Response = trig'[p].lastResp
              /\ trig'[p].res.FinalError = NoErr
              /\ trig'[p].res.Attempts = trig[p].attempt + 1
              /\ trig'[p].res.Attempts = trig'[p].sent
        /\ trig[p].pc \notin {"do_loop", "do_backoff", "do_send"}
           => trig'[p].sent = trig[p].sent
      ]_vars

\* Do has returned the 200 of the sequence 503, 503, 200 after 3 attempts.
C2_Witness ==
    \E p \in Triggers :
        /\ trig[p].pc = "do_done"
        /\ cfg.MaxRetries >= 2
        /\ trig[p].hist = << 503, 503, 200 >>
        /\ trig[p].res.Attempts = 3
        /\ trig[p].res.Response # Nil
        /\ trig[p].res.Response[1].StatusCode = 200
        /\ trig[p].res.FinalError = NoErr

\* What startJob turns into an error: Do's FinalError, no response, a status
\* outside 2xx, a body that cannot be read or parsed or that holds no job_id.
StartFails(r) ==
    \/ r.FinalError # NoErr
    \/ r.Response = Nil
    \/ ~Is2xx(r.Response[1].StatusCode)
    \/ r.Response[1].Body # "job"

\* TriggerAll has returned a failure without having polled.
EndsStartFailed(t) ==
    /\ t.pc = "done"
    /\ ~t.result.Success
    /\ t.result.Error # NoErr
    /\ t.result.JobDetails = Nil
    /\ t.fetches = 0

\* C5: when the start step fails, TriggerAll returns at once with
\* Success = false and a non-nil Error, pollJobCompletion is not entered and
\* no request goes to the job-status endpoint, then or later.
C5_StartFailureIsTerminal ==
    [][\A p \in Triggers :
        /\ ( /\ trig[p].pc = "do_done"
             /\ StartFails(trig[p].res)
             /\ trig'[p].pc # "do_done" )
           => EndsStartFailed(trig'[p])
        /\ ( /\ trig[p].pc = "start"
             /\ ~cfg.urlOK
             /\ trig'[p].pc # "start" )
           => EndsStartFailed(trig'[p])
        /\ trig[p].pc = "done" => trig'[p] = trig[p]
      ]_vars

\* TriggerAll has returned on a 2xx start response without a job_id.
C5_Witness ==
    \E p \in Triggers :
        /\ EndsStartFailed(trig[p])
        /\ trig[p].sent > 0
        /\ trig[p].result.Error = "no job ID in response"

\* The last status request was answered with the given JobStatus.
LastFetchedIs(t, status, failed) ==
    /\ t.lastFetched # Nil
    /\ t.lastFetched[1].err = NoErr
    /\ Is2xx(t.lastFetched[1].StatusCode)
    /\ t.lastFetched[1].Body = "json"
    /\ t.lastFetched[1].Data = JobStatus(status, failed)

\* C6: TriggerAll returns Success = true exactly when polling ended on a
\* fetched status completed with pipelinesFailed = 0; completed with failed
\* pipelines, failed, a timeout, a cancellation and a start failure all give
\* Success = false.
C6_SuccessIffCompletedClean ==
    \A p \in Triggers :
        trig[p].pc = "done" =>
            /\ trig[p].result.Success <=> LastFetchedIs(trig[p], "completed", 0)
            /\ trig[p].result.Error # NoErr => ~trig[p].result.Success
            /\ LastFetchedIs(trig[p], "completed", 2) => ~trig[p].result.Success
            /\ LastFetchedIs(trig[p], "failed", 0) => ~trig[p].result.Success

\* The third fetch found the job completed with no failed pipeline.
C6_Witness ==
    \E p \in Triggers :
        /\ trig[p].pc = "done"
        /\ trig[p].result.Success
        /\ trig[p].fetches = 3
        /\ trig[p].waits = 2

\* A status fetch that failed: transport error, unreadable body, 404, any
\* other status outside 2xx, a body that does not parse.
FetchFailed(o) ==
    \/ o.err # NoErr
    \/ ~Is2xx(o.StatusCode)
    \/ o.Body \in {"readerr", "malformed"}

\* C10: a failed status fetch does not end polling: the loop goes on to the
\* wait step, and from there to the next cycle's fetch unless the deadline
\* has passed or the context is cancelled.  Polling ends only on a fetched
\* status completed or failed, on the timeout, or on cancellation.
C10_FetchFailureIsTransient ==
    [][\A p \in Triggers :
        /\ ( /\ trig[p].pc = "poll_fetch"
             /\ trig'[p].fetches = trig[p].fetches + 1
             /\ FetchFailed(trig'[p].lastFetched[1]) )
           => trig'[p].pc = "poll_wait"
        /\ ( trig[p].pc = "poll_wait" /\ trig'[p].pc # "poll_wait" )
           => \/ trig'[p].pc = "poll_check"
              \/ trig'[p].pc = "done" /\ trig'[p].result.Error = CtxErr
        /\ ( trig[p].pc = "poll_check" /\ trig'[p].pc # "poll_check" )
           => \/ trig'[p].pc = "poll_fetch"
              \/ /\ trig'[p].pc = "done"
                 /\ trig'[p].result.Error \in {CtxErr, "polling timeout"}
        /\ ( trig[p].pc \in {"poll_check", "poll_fetch", "poll_wait"}
             /\ trig'[p].pc = "done" )
           => \/ /\ trig'[p].result.Error = NoErr
                 /\ \/ LastFetchedIs(trig'[p], "completed", 0)
                    \/ LastFetchedIs(trig'[p], "completed", 2)
                    \/ LastFetchedIs(trig'[p], "failed", 0)
                    \/ LastFetchedIs(trig'[p], "failed", 2)
              \/ trig'[p].result.Error \in {CtxErr, "polling timeout"}
      ]_vars

\* A fetch has failed with 404 after an earlier wait, and the loop is at its
\* wait step.
C10_Witness ==
    \E p \in Triggers :
        /\ trig[p].pc = "poll_wait"
        /\ trig[p].waits >= 1
        /\ trig[p].lastFetched # Nil
        /\ trig[p].lastFetched[1].StatusCode = 404

\* No rate-limit hint: no prior response, or one that is not a 429 carrying
\* a Retry-After header.
NoHint(resp) ==
    \/ resp = Nil
    \/ resp[1].StatusCode # 429
    \/ resp[1].RetryAfter = << >>

\* InitialBackoff * BackoffFactor^attempt as the fraction BkNum / BkDen.
BkNum ==
    bk.cfg.InitialBackoff * Pow(bk.cfg.FactorNum, bk.attempt)

BkDen ==
    Pow(bk.cfg.FactorDen, bk.attempt)

\* C3 as stated: without a hint CalculateBackoff is non-decreasing in the
\* attempt index, never exceeds maxBackoff, and equals
\* min(initialBackoff * backoffFactor^n, maxBackoff).
C3_Original ==
    (bk.called /\ NoHint(bk.resp)) =>
        /\ bk.prev <= bk.cur
        /\ bk.cur <= bk.cfg.MaxBackoff
        /\ bk.cur * BkDen = Min(BkNum, bk.cfg.MaxBackoff * BkDen)

\* C3: without a hint CalculateBackoff is non-decreasing in the attempt
\* index, never exceeds maxBackoff, and equals
\* min(initialBackoff * backoffFactor^n, maxBackoff) truncated to a whole
\* tick of time.Duration.
C3_MonotoneCappedTruncated ==
    (bk.called /\ NoHint(bk.resp)) =>
        /\ bk.prev <= bk.cur
        /\ bk.cur <= bk.cfg.MaxBackoff
        /\ IF BkNum >= bk.cfg.MaxBackoff * BkDen
           THEN bk.cur = bk.cfg.MaxBackoff
           ELSE bk.cur * BkDen <= BkNum /\ BkNum < (bk.cur + 1) * BkDen

\* Below the cap, a product that is no whole number of ticks was truncated,
\* and the backoff grew from the attempt before.
C3_Witness ==
    /\ bk.called
    /\ bk.resp # Nil
    /\ NoHint(bk.resp)
    /\ bk.attempt >= 2
    /\ BkNum < bk.cfg.MaxBackoff * BkDen
    /\ bk.cur * BkDen < BkNum
    /\ bk.prev < bk.cur

\* Retry-After values that are integers, with the integer each holds.
IntegerHeaders ==
    { << <<"5">>, 5 >>, << <<"1">>, 1 >>, << <<"0">>, 0 >>,
      << <<"1", "2">>, 12 >>, << <<"+", "5">>, 5 >>, << <<"-", "1">>, 0 - 1 >> }

\* C4: after a 429 whose Retry-After holds the integer N, CalculateBackoff
\* is exactly N seconds, whatever the attempt index and the configuration:
\* not capped by maxBackoff, not the exponential value.
C4_RetryAfterSecondsExact ==
    \A h \in IntegerHeaders :
        ( /\ bk.called
          /\ bk.resp # Nil
          /\ bk.resp[1].StatusCode = 429
          /\ bk.resp[1].RetryAfter = h[1] )
        => bk.cur = h[2] * Second /\ bk.prev = h[2] * Second

\* Retry-After: 5 gives 5 seconds at attempt index 3, above maxBackoff and
\* away from the exponential value.
C4_Witness ==
    /\ bk.called
    /\ bk.attempt = 3
    /\ bk.resp # Nil
    /\ bk.resp[1].StatusCode = 429
    /\ bk.resp[1].RetryAfter = <<"5">>
    /\ bk.cur = 5 * Second
    /\ bk.cfg.MaxBackoff < 5 * Second
    /\ bk.cfg.FactorNum > bk.cfg.FactorDen

\* Polling is under way.
Polling(t) ==
    t.pc \in {"poll_check", "poll_fetch", "poll_wait"}

\* TriggerAll has returned the poll timeout.
TimedOut(t) ==
    t.pc = "done" /\ t.result.Error = "polling timeout"

\* C7 as stated: a poll that times out does so within maxWaitTime plus one
\* poll interval of the moment polling started.
C7_Original ==
    \A p \in Triggers :
        TimedOut(trig[p]) =>
            trig[p].now - trig[p].pollStart <= cfg.MaxWaitTime + cfg.MaxInterval

\* C7: polling does not run forever.  It ends, and when no fetch returned
\* completed or failed and the context was not cancelled it ends with the
\* timeout failure; that happens within maxWaitTime plus one poll interval
\* plus the time of one status request of the moment polling started.
C7_PollingEnds ==
    /\ \A p \in Triggers : Polling(trig[p]) ~> (trig[p].pc = "done")
    /\ [](\A p \in Triggers :
            /\ (Polling(trig[p]) \/ TimedOut(trig[p]))
               => trig[p].now - trig[p].pollStart
                      <= cfg.MaxWaitTime + trig[p].lastWait + RequestTime
            /\ TimedOut(trig[p])
               => /\ ~trig[p].result.Success
                  /\ trig[p].result.JobDetails = Nil
            /\ ( /\ trig[p].pc = "done"
                 /\ trig[p].fetches > 0
                 /\ ~trig[p].ctxDone
                 /\ trig[p].lastFetched[1].Data.Status \notin {"completed", "failed"} )
               => TimedOut(trig[p]))

\* A poll whose fetches all failed or found the job running has timed out,
\* later than maxWaitTime plus the largest poll interval after its start.
C7_Witness ==
    \E p \in Triggers :
        /\ TimedOut(trig[p])
        /\ trig[p].fetches >= 3
        /\ trig[p].now - trig[p].pollStart > cfg.MaxWaitTime + cfg.MaxInterval

\* initialInterval * 1.5^k as the fraction IvNum(k) / IvDen(k).
IvNum(k) ==
    cfg.InitialInterval * Pow(3, k)

IvDen(k) ==
    Pow(2, k)

\* C8 as stated: the interval of the k-th wait is
\* min(initialInterval * 1.5^k, maxInterval).
C8_Original ==
    \A p \in Triggers :
        Polling(trig[p]) =>
            trig[p].interval * IvDen(trig[p].waits)
                = Min(IvNum(trig[p].waits), cfg.MaxInterval * IvDen(trig[p].waits))

\* The interval after k waits: each growth by 1.5 truncated to a whole tick,
\* then capped.
RECURSIVE TruncatedGrowth(_)
TruncatedGrowth(k) ==
    IF k = 0 THEN cfg.InitialInterval
    ELSE Min((TruncatedGrowth(k - 1) * 3) \div 2, cfg.MaxInterval)

\* 1, 1.5, 2.25, 3.375, 5.0625, 7.59375, 10, 10, ... in 32nds of a second.
ExampleIntervals ==
    << 32, 48, 72, 108, 162, 243, 320, 320 >>

\* C8: the interval of the k-th wait depends on k alone, not on how the
\* fetches went: it is initialInterval grown k times by 1.5, each product
\* truncated to a whole tick of time.Duration and capped at maxInterval.  It
\* is non-decreasing, never exceeds maxInterval, is at most
\* min(initialInterval * 1.5^k, maxInterval) and equal to it when no product
\* was truncated; from 1s with a 10s ceiling it is 1, 1.5, 2.25, 3.375,
\* 5.0625, 7.59375, 10, 10, ...
C8_IntervalGrowth ==
    \A p \in Triggers :
        Polling(trig[p]) =>
            LET k == trig[p].waits
                i == trig[p].interval
                formula == Min(IvNum(k), cfg.MaxInterval * IvDen(k))
            IN  /\ i = TruncatedGrowth(k)
                /\ i <= cfg.MaxInterval
                /\ k > 0 => trig[p].lastWait <= i
                /\ i * IvDen(k) <= formula
                /\ cfg.InitialInterval % IvDen(k) = 0 => i * IvDen(k) = formula
                /\ ( cfg.InitialInterval = Second /\ cfg.MaxInterval = 10 * Second )
                   => 32 * i = Second * ExampleIntervals[Min(k, 7) + 1]

\* From 1s with a 10s ceiling: after six waits, the last of 7.59375s, the
\* interval is 10s although the last fetch failed.
C8_Witness ==
    \E p \in Triggers :
        /\ trig[p].pc = "poll_wait"
        /\ cfg.InitialInterval = Second
        /\ cfg.MaxInterval = 10 * Second
        /\ trig[p].waits = 6
        /\ 32 * trig[p].lastWait = 243 * Second
        /\ trig[p].interval = 10 * Second
        /\ FetchFailed(trig[p].lastFetched[1])

\* Shutdown has begun: serverMode has marked the health state not ready,
\* the first thing it does to shut down.
ShutdownBegun ==
    main.pc \in {"notready", "shutdown", "exited"}

\* C9: ready is true from the start until shutdown begins and false ever
\* after; a /ready request that comes once shutdown has begun is answered
\* 503, never 200.
C9_ReadyUntilShutdown ==
    /\ [](ShutdownBegun <=> ~health.ready)
    /\ [][~health.ready => ~health'.ready]_vars
    /\ [](\A r \in ReadyReqs :
            rdy[r].late =>
                /\ ShutdownBegun
                /\ rdy[r].pc = "read" => ~rdy[r].ready
                /\ rdy[r].pc = "answered" => rdy[r].code = 503)
    /\ [](\A r \in ReadyReqs :
            (rdy[r].pc = "answered" /\ ~rdy[r].late) => rdy[r].code = 200)

\* A /ready request that came after shutdown had begun has its 503, with a
\* pipeline run recorded since.
C9_Witness ==
    \E r \in ReadyReqs :
        /\ rdy[r].pc = "answered"
        /\ rdy[r].late
        /\ rdy[r].code = 503
        /\ main.pc = "shutdown"
        /\ health.lastPipelineRun # Nil

\* Invocation p takes a step.
Steps(p) ==
    trig'[p] # trig[p]

\* Invocation p has returned the cancellation error from its polling loop.
EndsCancelled(t) ==
    /\ t.pc = "done"
    /\ t.result.Error = CtxErr
    /\ ~t.result.Success
    /\ t.result.JobID # ""

\* C11: at each checkpoint of the polling loop (the start of a cycle, the
\* poll-interval wait) a cancellation that has been requested ends the loop
\* as Cancelled, with the cancellation error, also when the deadline has
\* passed at that checkpoint.
C11_CancelledHasPriority ==
    [][\A p \in Triggers :
          ( /\ trig[p].pc \in {"poll_check", "poll_wait"}
            /\ trig[p].ctxDone
            /\ Steps(p) )
          => EndsCancelled(trig'[p])]_vars

\* The last status request was answered 2xx with a body that parses.
LastFetchSucceeded(t) ==
    /\ t.fetches > 0
    /\ t.lastFetched[1].err = NoErr
    /\ Is2xx(t.lastFetched[1].StatusCode)
    /\ t.lastFetched[1].Body = "json"

\* C12: when a status fetch succeeded during polling, the result TriggerAll
\* returns carries a JobStatus snapshot, whatever the terminal state.
C12_SnapshotAlwaysAttached ==
    \A p \in Triggers :
        (trig[p].pc = "done" /\ LastFetchSucceeded(trig[p]))
        => trig[p].result.JobDetails # Nil

\* C15: a cancellation requested before or during a backoff wait makes Do
\* return at once, with the cancellation error as FinalError and no
\* response, and without another HTTP attempt.
C15_BackoffWaitCancelled ==
    [][\A p \in Triggers :
          ( /\ trig[p].pc = "do_backoff"
            /\ trig[p].ctxDone
            /\ Steps(p) )
          => /\ trig'[p].pc = "do_done"
             /\ trig'[p].res.FinalError = CtxErr
             /\ trig'[p].res.Response = Nil
             /\ trig'[p].sent = trig[p].sent]_vars

SignalReceived ==
    main.pc \in {"signalled", "notready", "shutdown"}

\* C13: in server mode a /trigger invocation that is polling when the
\* termination signal arrives sees the cancellation at its next checkpoint
\* (the pre-fetch check, the poll-interval wait) and ends as Cancelled; it
\* does not go on polling.
C13_SignalCancelsPolling ==
    [][\A p \in Triggers :
          ( /\ SignalReceived
            /\ p \in main.polling
            /\ hnd[p].pc = "running"
            /\ trig[p].pc \in {"poll_check", "poll_wait"}
            /\ trig[p].now <= trig[p].deadline
            /\ trig'[p].pc # trig[p].pc )
          => EndsCancelled(trig'[p])]_vars

\* What a TriggerResult is recorded as.
RunOf(result) ==
    [Success |-> result.Success,
     Duration |-> DurationString(result.Duration),
     Attempts |-> result.Attempts,
     Error |-> IF result.Error = NoErr THEN "" ELSE result.Error]

\* The run lastPipelineRun points to, nil for a nil pointer.
LastRun ==
    IF health.lastPipelineRun = Nil THEN Nil
    ELSE << health.heap[health.lastPipelineRun[1]] >>

\* The /trigger requests whose RecordPipelineRun has run.
Recorded ==
    { p \in Triggers : hnd[p].method = "POST" /\ hnd[p].pc \in {"recorded", "answered"} }

\* C14: with concurrent /trigger invocations every completed trigger records
\* its outcome exactly once, and lastPipelineRun is, field for field, the
\* outcome of the trigger whose RecordPipelineRun ran last: never a mixture
\* of two runs, and a later failure replaces an earlier success.
C14_LastWriteWins ==
    /\ [][\A p \in Triggers :
            (p \notin Recorded /\ p \in Recorded')
            => LastRun' = << RunOf(trig[p].result) >>]_vars
    /\ [][LastRun' # LastRun
            => \E p \in Triggers : p \notin Recorded /\ p \in Recorded']_vars
    /\ [][Len(health'.heap) = Len(health.heap) + Cardinality(Recorded' \ Recorded)]_vars
    /\ [](Len(health.heap) = Cardinality(Recorded))
    /\ [](LastRun = Nil
          \/ \E p \in Recorded : LastRun = << RunOf(trig[p].result) >>)

\* Two triggers have recorded, a success first and a failure after it: the
\* last run is the failure.
C14_Witness ==
    \E p, q \in Recorded :
        /\ p # q
        /\ trig[p].result.Success
        /\ ~trig[q].result.Success
        /\ Len(health.heap) = 2
        /\ health.heap[1] = RunOf(trig[p].result)
        /\ LastRun = << RunOf(trig[q].result) >>
        /\ LastRun[1].Error = "polling timeout"

\* C17: a POST to /trigger is answered once TriggerAll has run to its end,
\* 200 exactly when the result has Success = true and 500 otherwise; a
\* request with another method is answered 405, TriggerAll is not run and
\* the health state stays as it is.
C17_TriggerAnswer ==
    /\ [](\A p \in Triggers :
            hnd[p].pc = "answered" =>
                IF hnd[p].method = "POST"
                THEN /\ trig[p].pc = "done"
                     /\ p \in Recorded
                     /\ hnd[p].code = 200 <=> trig[p].result.Success
                     /\ hnd[p].code = 500 <=> ~trig[p].result.Success
                ELSE /\ hnd[p].code = 405
                     /\ trig[p] = IdleTrigger)
    /\ [][\A p \in Triggers :
            (hnd'[p] # hnd[p] /\ hnd'[p].method # "POST")
            => /\ health' = health
               /\ trig' = trig
               /\ hnd'[p].pc = "answered"]_vars

\* One POST is answered 500 for a job that completed with failed pipelines
\* (no error), another request is answered 405.
C17_Witness ==
    \E p, q \in Triggers :
        /\ hnd[p].pc = "answered"
        /\ hnd[p].method = "POST"
        /\ hnd[p].code = 500
        /\ trig[p].result.Error = NoErr
        /\ trig[p].result.JobDetails # Nil
        /\ trig[p].result.JobDetails[1].Status = "completed"
        /\ hnd[q].pc = "answered"
        /\ hnd[q].code = 405

\* TriggerAll ended in a terminal error: the start failed, or polling ended
\* without a terminal JobStatus (timeout, cancellation).
EndsInError(t) ==
    /\ t.pc = "done"
    /\ t.result.JobID = "" \/ t.result.JobDetails = Nil

\* C18: a terminal error of a trigger reaches the caller as a non-nil error,
\* with the attempt count and the elapsed time: TriggerAll does not return
\* such an outcome with Success = false and a nil Error, and the /trigger
\* answer and the recorded health entry carry the error's text.
C18_ErrorsReachCaller ==
    /\ [](\A p \in Triggers :
            /\ trig[p].pc = "done"
               => /\ trig[p].result.Attempts = trig[p].sent
                  /\ trig[p].result.Duration = trig[p].now
            /\ EndsInError(trig[p])
               => /\ trig[p].result.Error # NoErr
                  /\ ~trig[p].result.Success
            /\ (EndsInError(trig[p]) /\ hnd[p].pc = "answered")
               => /\ hnd[p].code = 500
                  /\ hnd[p].body[1].status = "failed"
                  /\ hnd[p].body[1].error = << trig[p].result.Error >>
                  /\ hnd[p].body[1].attempts = << trig[p].sent >>
                  /\ hnd[p].body[1].duration = << DurationString(trig[p].now) >>)
    /\ [][\A p \in Triggers :
            (p \notin Recorded /\ p \in Recorded' /\ EndsInError(trig[p]))
            => /\ LastRun'[1].Error = trig[p].result.Error
               /\ LastRun'[1].Attempts = trig[p].sent
               /\ ~LastRun'[1].Success]_vars

\* A start that failed after two attempts is answered 500 with its error
\* text, which is also the last recorded run's.
C18_Witness ==
    \E p \in Triggers :
        /\ hnd[p].pc = "answered"
        /\ EndsInError(trig[p])
        /\ trig[p].sent = 2
        /\ hnd[p].body[1].error = << "failed to start job" >>
        /\ hnd[p].body[1].attempts = << 2 >>
        /\ LastRun # Nil
        /\ LastRun[1].Error = "failed to start job"

\* C19: a reader of the health state gets the state as it was when it held
\* the read lock: /health serializes the run lastPipelineRun pointed to
\* then, whole, even if RecordPipelineRun runs before it serializes, and
\* /ready answers for the value of ready read then.  A PipelineRunStatus is
\* not written after it is published.  The lock is held only by a handler
\* whose TriggerAll has returned, never by one whose trigger is under way.
C19_ConsistentSnapshots ==
    /\ [](\A r \in ReadyReqs :
            rdy[r].pc = "answered" =>
                /\ rdy[r].path = "/health"
                   => /\ rdy[r].code = 200
                      /\ rdy[r].body[1].Checks = rdy[r].seen
                /\ rdy[r].path = "/ready"
                   => (rdy[r].code = 200 <=> rdy[r].ready))
    /\ [][\A i \in 1..Len(health.heap) : health'.heap[i] = health.heap[i]]_vars
    /\ [](health.mu # 0
            => /\ hnd[health.mu].pc = "locking"
               /\ trig[health.mu].pc = "done")
    /\ [](\A p \in Triggers :
            trig[p].pc \notin {"idle", "done"} => health.mu # p)

\* /health has answered with the run it read under the lock, whole, after
\* another trigger recorded a different run.
C19_Witness ==
    \E r \in ReadyReqs :
        /\ rdy[r].pc = "answered"
        /\ rdy[r].path = "/health"
        /\ rdy[r].seen # Nil
        /\ rdy[r].body[1].Checks = rdy[r].seen
        /\ LastRun # rdy[r].seen
        /\ Len(health.heap) = 2

\* The invocation is inside pollJobCompletion.
InPolling(t) ==
    t.pc \in {"poll_check", "poll_fetch", "poll_wait"}

\* StartJob's two outcomes.
EndsStarted(t) ==
    /\ t.pc = "done"
    /\ t.result.Success
    /\ t.result.JobID # ""
    /\ t.result.Error = NoErr
    /\ t.result.JobDetails = Nil
    /\ t.fetches = 0

\* C20: in fire-and-forget mode StartJob ends as Started (the start request
\* got a 2xx answer with a job_id) or as StartFailed (anything else), the
\* invocation is never inside the polling loop and never sends a request to
\* the job-status endpoint, and the process exits with 0 after Started and
\* with 1 after StartFailed.
C20_FireAndForgetStopsAfterStart ==
    [][main.fireAndForget =>
        /\ ~InPolling(trig'[1])
        /\ trig'[1].fetches = 0
        /\ ( trig[1].pc = "do_done" /\ trig'[1].pc # "do_done" )
           => IF StartFails(trig[1].res) THEN EndsStartFailed(trig'[1])
              ELSE EndsStarted(trig'[1])
        /\ ( trig[1].pc = "start" /\ trig'[1].pc = "done" )
           => EndsStartFailed(trig'[1])
        /\ trig[1].pc = "done" => trig'[1] = trig[1]
        /\ ( main.pc # "exited" /\ main'.pc = "exited" )
           => /\ EndsStarted(trig[1]) \/ EndsStartFailed(trig[1])
              /\ main'.exit = << IF EndsStarted(trig[1]) THEN 0 ELSE 1 >>
      ]_vars

\* The process has exited with 0 in fire-and-forget mode, the start request
\* having been answered with a job_id at its second attempt, against a
\* backend whose status endpoint would have reported the job as failed.
C20_Witness ==
    /\ main.fireAndForget
    /\ main.pc = "exited"
    /\ main.exit = << 0 >>
    /\ trig[1].sent = 2
    /\ trig[1].result.JobID = "job-1"
    /\ trig[1].fetches = 0
    /\ \E o \in backend.status :
           o.StatusCode = 200 /\ o.Body = "json" /\ o.Data.Status = "failed"

\* Do has returned after maxRetries + 1 attempts, the last of which came to
\* a transport error (0) or to a retryable status.
LastCode(t) ==
    t.hist[Len(t.hist)]

BudgetExhausted(t) ==
    /\ t.pc = "do_done"
    /\ cfg.MaxRetries >= 0
    /\ t.sent = cfg.MaxRetries + 1
    /\ LastCode(t) = 0 \/ ~NonRetryableStatus(LastCode(t))

\* The Result holds what the last attempt came to.
HoldsLastOutcome(t) ==
    /\ t.res.Attempts = cfg.MaxRetries + 1
    /\ IF LastCode(t) = 0
       THEN /\ t.res.FinalError = TransportErr
            /\ t.res.Response = Nil
       ELSE /\ t.res.FinalError = NoErr
            /\ t.res.Response # Nil
            /\ t.res.Response = t.lastResp
            /\ t.res.Response[1].StatusCode = LastCode(t)

\* C21: when Do has used its whole budget, its Result has Attempts =
\* maxRetries + 1 and holds the last attempt's outcome: after a retryable
\* status that response with a nil FinalError, after a transport error that
\* error with no response; startJob then fails in both cases and TriggerAll
\* returns a start failure.
C21_LastOutcomeIsFinal ==
    [][\A p \in Triggers :
        /\ BudgetExhausted(trig'[p]) => HoldsLastOutcome(trig'[p])
        /\ ( BudgetExhausted(trig[p]) /\ trig'[p].pc # "do_done" )
           => EndsStartFailed(trig'[p])
      ]_vars

\* TriggerAll has returned a start failure after two retries, the third
\* attempt having come to a transport error.
C21_Witness ==
    \E p \in Triggers :
        /\ EndsStartFailed(trig[p])
        /\ cfg.MaxRetries = 2
        /\ trig[p].sent = 3
        /\ trig[p].result.Attempts = 3
        /\ trig[p].result.Error = "failed to start job"

\* C22: the poll deadline is set when pollJobCompletion is entered, to the
\* clock at that moment plus maxWaitTime, and no cycle, fetch or wait changes
\* it.  A cycle that starts after the deadline calls no fetchJobStatus and
\* ends the loop with the timeout error and no JobStatus; a cycle that starts
\* at or before it, the context not cancelled, calls fetchJobStatus.
C22_DeadlineFixedAtPollStart ==
    [][\A p \in Triggers :
        /\ ( ~Polling(trig[p]) /\ Polling(trig'[p]) )
           => /\ trig'[p].pollStart = trig'[p].now
              /\ trig'[p].deadline = trig'[p].pollStart + cfg.MaxWaitTime
        /\ Polling(trig[p])
           => /\ trig'[p].deadline = trig[p].deadline
              /\ trig'[p].pollStart = trig[p].pollStart
        /\ ( /\ trig[p].pc = "poll_check"
             /\ trig[p].now > trig[p].deadline
             /\ trig'[p].pc # "poll_check" )
           => /\ TimedOut(trig'[p])
              /\ ~trig'[p].result.Success
              /\ trig'[p].result.JobDetails = Nil
              /\ trig'[p].fetches = trig[p].fetches
        /\ ( /\ trig[p].pc = "poll_check"
             /\ trig[p].now <= trig[p].deadline
             /\ ~trig[p].ctxDone
             /\ trig'[p].pc # "poll_check" )
           => trig'[p].pc = "poll_fetch"
        /\ ( trig[p].pc = "poll_fetch" /\ trig'[p].pc # "poll_fetch" )
           => trig'[p].fetches = trig[p].fetches + 1
      ]_vars

\* The loop has timed out at the start of its fourth cycle or a later one,
\* the deadline still the one set when polling started, some time after
\* TriggerAll was entered.
C22_Witness ==
    \E p \in Triggers :
        /\ TimedOut(trig[p])
        /\ trig[p].pollStart > 0
        /\ trig[p].fetches >= 3
        /\ trig[p].waits >= 3
        /\ trig[p].deadline = trig[p].pollStart + cfg.MaxWaitTime
        /\ trig[p].now > trig[p].deadline

\* C23: a poll cycle calls fetchJobStatus once, and the request is sent once,
\* outside retry.Do: a fetch that fails, with 429 or 5xx as with anything
\* else, is followed by the poll-interval wait and not by another request,
\* no start-request attempt is counted while polling, and between two
\* consecutive fetches exactly one wait runs to its end.
C23_OneFetchPerCycle ==
    [][\A p \in Triggers :
        /\ ( trig[p].pc = "poll_fetch" /\ trig'[p].pc # "poll_fetch" )
           => /\ trig'[p].fetches = trig[p].fetches + 1
              /\ trig'[p].waits = trig[p].waits
              /\ trig'[p].pc \in {"poll_wait", "done"}
              /\ FetchFailed(trig'[p].lastFetched[1]) => trig'[p].pc = "poll_wait"
        /\ Polling(trig[p])
           => /\ trig'[p].sent = trig[p].sent
              /\ trig'[p].attempt = trig[p].attempt
              /\ trig'[p].res = trig[p].res
        /\ Polling(trig'[p])
           => trig'[p].fetches =
                 trig'[p].waits + (IF trig'[p].pc = "poll_wait" THEN 1 ELSE 0)
      ]_vars

\* The third fetch of a poll has been answered 429 and the loop is at its
\* wait step, two waits having run between the three fetches.
C23_Witness ==
    \E p \in Triggers :
        /\ trig[p].pc = "poll_wait"
        /\ trig[p].fetches = 3
        /\ trig[p].waits = 2
        /\ trig[p].lastFetched[1].StatusCode = 429

\* C24: a backoff that CalculateBackoff computed as zero or negative (a 429
\* whose Retry-After is a date in the past or an integer <= 0) is waited as
\* zero: with the context not cancelled the select takes the timer at once,
\* the clock does not move, Do does not return, and the next attempt is sent.
\* No step of an invocation moves its clock backwards.
C24_NonPositiveBackoffIsZeroWait ==
    [][\A p \in Triggers :
        /\ ( /\ trig[p].pc = "do_backoff"
             /\ trig[p].backoff <= 0
             /\ ~trig[p].ctxDone
             /\ trig'[p].pc # "do_backoff" )
           => /\ trig'[p].pc = "do_send"
              /\ trig'[p].now = trig[p].now
              /\ trig'[p].attempt = trig[p].attempt
              /\ trig'[p].sent = trig[p].sent
        /\ ( trig[p].pc = "do_send" /\ trig'[p].pc # "do_send" )
           => trig'[p].sent = trig[p].sent + 1
        /\ trig'[p].now >= trig[p].now
      ]_vars

\* A second attempt has been sent after a 429 whose Retry-After gave a
\* negative backoff, no time having passed.
C24_Witness ==
    \E p \in Triggers :
        /\ trig[p].sent = 2
        /\ trig[p].hist[1] = 429
        /\ trig[p].backoff < 0
        /\ ~trig[p].ctxDone
        /\ trig[p].now = 0

\* How far serverMode has come.
ShutdownStage ==
    CASE main.pc = "serving"   -> 0
      [] main.pc = "signalled" -> 1
      [] main.pc = "notready"  -> 2
      [] main.pc = "shutdown"  -> 3
      [] main.pc = "exited"    -> 4

\* A request is taken by the server in this step.
RequestAccepted ==
    \/ \E p \in Triggers : hnd[p].pc = "none" /\ hnd'[p].pc # "none"
    \/ \E r \in ReadyReqs : rdy[r].pc = "none" /\ rdy'[r].pc # "none"

\* C25: after the signal serverMode sets ready to false, then enters
\* server.Shutdown, which closes the listeners, then returns when the
\* requests in flight are done or the grace period is over, in this order
\* and each once.  The server is never shutting down with ready still true,
\* takes no request once it is, and ready changes only in the one step that
\* sets it to false.
C25_ShutdownOrder ==
    /\ [](main.pc \in {"shutdown", "exited"} => ~health.ready)
    /\ [](main.pc \in {"serving", "signalled"} => health.ready)
    /\ [][ \/ main'.pc = main.pc
           \/ ShutdownStage' = ShutdownStage + 1 ]_vars
    /\ [][ health'.ready # health.ready
           => /\ main.pc = "signalled"
              /\ main'.pc = "notready"
              /\ ~health'.ready ]_vars
    /\ [][ RequestAccepted => main.pc \in {"serving", "signalled", "notready"} ]_vars
    /\ [][ main.pc # "exited" ]_vars

\* serverMode has returned at the end of the grace period, ready false, a
\* /trigger request still polling and another one answered.
C25_Witness ==
    /\ main.pc = "exited"
    /\ ~health.ready
    /\ \E p, q \in Triggers :
           /\ InFlight(p)
           /\ Polling(trig[p])
           /\ hnd[q].pc = "answered"
           /\ hnd[q].code = 200

\* C26: with maxRetries >= 0, whenever Do has returned (on a non-retryable
\* response, with its budget used up, or on a cancellation during a backoff
\* wait) the Attempts of its Result is the number of client.Do calls the
\* invocation made, and at least 1.
C26_AttemptsCountsRequests ==
    \A p \in Triggers :
        ( trig[p].pc = "do_done" /\ cfg.MaxRetries >= 0 )
            => /\ trig[p].res.Attempts = trig[p].sent
               /\ trig[p].res.Attempts >= 1

\* Do has returned the cancellation error from its second backoff wait,
\* after two attempts out of three.
C26_Witness ==
    \E p \in Triggers :
        /\ trig[p].pc = "do_done"
        /\ cfg.MaxRetries = 2
        /\ trig[p].res.FinalError = CtxErr
        /\ trig[p].res.Attempts = 2
        /\ trig[p].sent = 2

\* C27: a result TriggerAll has returned has, with Success true, a nil
\* Error and JobDetails of status completed with PipelinesFailed = 0; with
\* Success false, a non-nil Error or non-nil JobDetails; and never a non-nil
\* Error together with non-nil JobDetails.
C27_ResultShape ==
    \A p \in Triggers :
        trig[p].pc = "done" =>
            LET r == trig[p].result IN
            /\ r.Success
               => /\ r.Error = NoErr
                  /\ r.JobDetails # Nil
                  /\ r.JobDetails = << JobStatus("completed", 0) >>
            /\ ~r.Success => ( r.Error # NoErr \/ r.JobDetails # Nil )
            /\ ~( r.Error # NoErr /\ r.JobDetails # Nil )

\* TriggerAll has returned Success false with a nil Error for a job that
\* completed with failed pipelines, found at the second fetch.
C27_Witness ==
    \E p \in Triggers :
        /\ trig[p].pc = "done"
        /\ ~trig[p].result.Success
        /\ trig[p].result.Error = NoErr
        /\ trig[p].result.JobDetails = << JobStatus("completed", 2) >>
        /\ trig[p].fetches = 2

\* C28: the Attempts of a TriggerAll result is what startJob returned, the
\* Attempts of retry.Do's Result: it is taken when startJob returns, no
\* fetch or wait of the polling loop changes it, and when a start request
\* was sent it is the number of start requests, from 1 to maxRetries + 1.
C28_AttemptsIsStartAttempts ==
    [][\A p \in Triggers :
        /\ ( trig[p].pc = "do_done" /\ trig'[p].pc = "done" )
           => trig'[p].result.Attempts = trig[p].res.Attempts
        /\ ( trig[p].pc = "do_done" /\ Polling(trig'[p]) )
           => trig'[p].attempts = trig[p].res.Attempts
        /\ Polling(trig[p])
           => /\ trig'[p].attempts = trig[p].attempts
              /\ trig'[p].pc = "done"
                 => trig'[p].result.Attempts = trig[p].attempts
        /\ ( trig'[p].pc = "done" /\ trig'[p].sent > 0 )
           => /\ trig'[p].result.Attempts = trig'[p].sent
              /\ trig'[p].result.Attempts \in 1..(cfg.MaxRetries + 1)
      ]_vars

\* TriggerAll has returned after a start that took two attempts and a poll
\* of three fetches and two waits, with Attempts = 2.
C28_Witness ==
    \E p \in Triggers :
        /\ trig[p].pc = "done"
        /\ trig[p].sent = 2
        /\ trig[p].fetches = 3
        /\ trig[p].waits = 2
        /\ trig[p].result.Attempts = 2

====
